---- MODULE Spec2Model ----
(***************************************************************************)
(* Conversation context management of the chat backend:                    *)
(*   - ContextManager (backend/src/services/contextManager.ts): token      *)
(*     estimation, trimConversation, shouldCleanupConversation,            *)
(*     validateMessage;                                                    *)
(*   - the chat router (backend/src/routes/chat.ts): the in-memory         *)
(*     conversations map, POST /, DELETE /conversation/:id and the hourly  *)
(*     cleanup sweep;                                                      *)
(*   - the chat window of the frontend (ChatWindow.handleSendMessage,      *)
(*     useOptimisticMessages, ChatService.sendMessageStream): what becomes *)
(*     of the assistant message of a send.                                 *)
(*                                                                         *)
(* A message is a record [id, role, len]: len is the number of characters  *)
(* of its content, the only thing of the content the trimmer reads.        *)
(* Time is counted in whole hours.                                         *)
(***************************************************************************)
EXTENDS Integers, Sequences, FiniteSets, TLC

VARIABLES
    conversations,  \* chat.ts:10  the Map: conversation id -> session object (0: no entry)
    sessions,       \* the session objects { messages, lastActivity }, by object identity:
                    \* the object that request r creates is sessions[r]
    arrays,         \* the Message[] arrays, by array identity: the array that request r
                    \* seeds is arrays[SeedArray(r)], the one its trim builds arrays[TrimArray(r)]
    req,            \* the POST requests: position in the handler, its local variables
                    \* and calls, the number of times it has called the provider;
                    \* history: during (the requests on the same id that were suspended
                    \* when this one arrived) and gone (its session object was taken out
                    \* of the map while it was suspended)
    nextReq,        \* the next request to arrive
    now,            \* the clock, in hours
    input,          \* function harness: the argument of trimConversation or validateMessage
    output,         \* function harness: its result
    tpc,            \* function harness: "off" | "ready" | and, once the function has
                    \* been applied, "trimmed" | "retrimmed" | "validated" |
                    \* "estimated" | "asked" | "handled"
    client,         \* the chat window of the frontend: its messages and the one
                    \* send that can be under way
    sse,            \* chat.ts:71-117  the stream branch of one request: fullResponse,
                    \* conversationMessages from the user turn on, what it has written;
                    \* history: yielded (the fragments the provider has given)
    area,           \* part_006:13-47  the input area: the clock in ms, the timestamps
                    \* of its ClientRateLimit, last (what became of the last
                    \* handleSend); history: granted (the times of all calls of
                    \* canMakeRequest that returned true)
    call            \* part_008:31-103  one call of sendMessageStream: what it has read
                    \* of the connection, its buffer; history: callbacks (the
                    \* callbacks it has invoked, in order)

vars == <<conversations, sessions, arrays, req, nextReq, now, input, output, tpc, client,
          sse, call, area>>

sessionVars == <<conversations, sessions, arrays, req, nextReq, now>>
trimVars == <<input, output, tpc>>
clientVars == <<client>>
wireVars == <<sse, call>>
areaVars == <<area>>

----------------------------------------------------------------------------
(* Program constants *)

MAX_TOKENS == 4000
MAX_MESSAGES == 30
KEEP_RECENT_MESSAGES == 10
CHARS_PER_TOKEN == 4
TOKEN_OVERHEAD == 10
SYSTEM_CONTENT_LENGTH == 133
MAX_CONTENT_LENGTH == 10000
CLEANUP_AFTER_HOURS == 24

----------------------------------------------------------------------------
(* Bounds of the model *)

MaxHead == 2        \* free turns in front of the uniform run of a trimmer input
MaxTail == 1        \* free turns behind it
MaxReqs == 2        \* POST requests in one behaviour
MaxChunks == 1      \* fragments the provider yields in one stream
MaxTime == 25       \* the clock stops here
MaxPad == 2         \* whitespace characters on either side of a validator input
MaxSends == 2       \* messages sent from the chat window before it is cleared
MaxTurns == 3       \* turns of an input of the token estimate

----------------------------------------------------------------------------
(* ContextManager *)

Roles == {"system", "user", "assistant"}

\* a mutant: the quotient is rounded down
CeilDiv_floor(a, b) == a \div b

\* Math.ceil(a / b)
CeilDiv(a, b) == (a + b - 1) \div b

\* contextManager.ts:12-15
estimateTokens(message) == CeilDiv(message.len, CHARS_PER_TOKEN) + TOKEN_OVERHEAD

\* contextManager.ts:20-22
RECURSIVE calculateTotalTokens(_)
calculateTotalTokens(messages) ==
    IF messages = <<>> THEN 0
    ELSE estimateTokens(Head(messages)) + calculateTotalTokens(Tail(messages))

IsSystem(msg) == msg.role = "system"
NotSystem(msg) == msg.role # "system"

\* a mutant: find() takes the last system message instead of the first
systemMessage_last(messages) ==
    LET sys == SelectSeq(messages, IsSystem)
    IN  IF sys = <<>> THEN <<>> ELSE <<sys[Len(sys)]>>

\* contextManager.ts:29  messages.find(msg => msg.role === 'system'):
\* <<>> for undefined, otherwise the one-element sequence of the first match
systemMessage(messages) ==
    LET sys == SelectSeq(messages, IsSystem)
    IN  IF sys = <<>> THEN <<>> ELSE <<sys[1]>>

\* a mutant: the filter is forgotten
nonSystemMessages_all(messages) == messages

\* contextManager.ts:30  messages.filter(msg => msg.role !== 'system')
nonSystemMessages(messages) == SelectSeq(messages, NotSystem)

\* a mutant: the token budget is not part of the test
WithinLimits_countOnly(messages) ==
    Len(nonSystemMessages(messages)) <= MAX_MESSAGES

\* contextManager.ts:33-34
WithinLimits(messages) ==
    /\ Len(nonSystemMessages(messages)) <= MAX_MESSAGES
    /\ calculateTotalTokens(messages) <= MAX_TOKENS

\* contextManager.ts:46  nonSystemMessages.slice(-KEEP_RECENT_MESSAGES)
recentMessages(nonSystem) ==
    IF Len(nonSystem) <= KEEP_RECENT_MESSAGES THEN nonSystem
    ELSE SubSeq(nonSystem, Len(nonSystem) - KEEP_RECENT_MESSAGES + 1, Len(nonSystem))

\* contextManager.ts:54  trimmedMessages.splice(1, 1)
Splice1(s) == <<s[1]>> \o SubSeq(s, 3, Len(s))

\* a mutant: the floor of the loop is one message, not two
RECURSIVE TokenLoop_floor1(_)
TokenLoop_floor1(trimmed) ==
    IF Len(trimmed) > 1 /\ calculateTotalTokens(trimmed) > MAX_TOKENS
    THEN TokenLoop_floor1(Splice1(trimmed))
    ELSE trimmed

\* a mutant: an if in place of the while: one message is removed at most
TokenLoop_once(trimmed) ==
    IF Len(trimmed) > 2 /\ calculateTotalTokens(trimmed) > MAX_TOKENS
    THEN Splice1(trimmed)
    ELSE trimmed

\* contextManager.ts:50-56  the while loop
RECURSIVE TokenLoop(_)
TokenLoop(trimmed) ==
    IF Len(trimmed) > 2 /\ calculateTotalTokens(trimmed) > MAX_TOKENS
    THEN TokenLoop(Splice1(trimmed))
    ELSE trimmed

\* a mutant: no early return, the list is rebuilt on every call
trimConversation_rebuild(messages) ==
    TokenLoop(systemMessage(messages) \o recentMessages(nonSystemMessages(messages)))

\* contextManager.ts:27-59
trimConversation(messages) ==
    IF WithinLimits(messages) THEN messages
    ELSE TokenLoop(systemMessage(messages) \o recentMessages(nonSystemMessages(messages)))

\* a mutant: the system messages are counted too
needsSummarization_all(messages) == Len(messages) * 10 > MAX_MESSAGES * 8

\* contextManager.ts:64-67  nonSystemMessages.length > MAX_MESSAGES * 0.8
needsSummarization(messages) == Len(nonSystemMessages(messages)) * 10 > MAX_MESSAGES * 8

\* a mutant: a session idle for exactly the limit is cleaned up too
shouldCleanupConversation_atLimit(lastActivity) == now - lastActivity >= CLEANUP_AFTER_HOURS

\* contextManager.ts:98-102  (now - lastActivity) in hours > 24
shouldCleanupConversation(lastActivity) == now - lastActivity > CLEANUP_AFTER_HOURS

----------------------------------------------------------------------------
(* Trimmer harness: trimConversation applied to one input of a bounded     *)
(* family, a uniform run of non-system turns between free head and tail.   *)

ContentLengths == {4, 8000}         \* 11 and 2010 estimated tokens
RunLengths == {0, 8, 28, 40}
RunContentLengths == {4, 160}

Shapes == [role : Roles, len : ContentLengths]

SeqsUpTo(S, n) == UNION {[1..k -> S] : k \in 0..n}

Run(n, len) == [i \in 1..n |-> [role |-> "user", len |-> len]]

\* the turns get their position as id, as uuidv4 gives every turn its own
MkInput(shapes) ==
    [i \in 1..Len(shapes) |-> [id |-> i, role |-> shapes[i].role, len |-> shapes[i].len]]

TrimInputs ==
    {MkInput(h \o Run(n, l) \o t) :
        h \in SeqsUpTo(Shapes, MaxHead), t \in SeqsUpTo(Shapes, MaxTail),
        n \in RunLengths, l \in RunContentLengths}

\* part_005:16-17, part_003:9: the window as it is mounted
ClientIdle ==
    [pc |-> "idle", messages |-> <<>>, target |-> 0, assistantContent |-> <<>>,
     isLoading |-> FALSE, ended |-> ""]

StreamIdle ==
    [pc |-> "off", fullResponse |-> <<>>, messages |-> <<>>, written |-> <<>>,
     yielded |-> <<>>]

CallIdle == [pc |-> "off", read |-> 0, buffer |-> <<>>, callbacks |-> <<>>]

WireIdle == sse = StreamIdle /\ call = CallIdle

AreaIdle ==
    [clock |-> 0, ticks |-> 0, timestamps |-> <<>>, granted |-> <<>>,
     last |-> [granted |-> FALSE, valid |-> FALSE, sent |-> FALSE]]

InitSessionsIdle ==
    /\ conversations = [c \in {} |-> 0]
    /\ sessions = <<>>
    /\ arrays = <<>>
    /\ req = <<>>
    /\ nextReq = 1
    /\ now = 0

InitTrim ==
    /\ InitSessionsIdle
    /\ input \in TrimInputs
    /\ output = <<>>
    /\ tpc = "ready"
    /\ client = ClientIdle
    /\ WireIdle
    /\ area = AreaIdle

Trim ==
    /\ tpc = "ready"
    /\ output' = trimConversation(input)
    /\ tpc' = "trimmed"
    /\ UNCHANGED <<input, sessionVars, clientVars, wireVars, areaVars>>

\* trimConversation applied to what it has returned
TrimAgain ==
    /\ tpc = "trimmed"
    /\ output' = [first |-> output, again |-> trimConversation(output)]
    /\ tpc' = "retrimmed"
    /\ UNCHANGED <<input, sessionVars, clientVars, wireVars, areaVars>>

NextTrim == Trim \/ TrimAgain

SpecTrim == InitTrim /\ [][NextTrim]_vars

----------------------------------------------------------------------------
(* Estimate harness: estimateTokens and calculateTotalTokens applied to a  *)
(* sequence of up to MaxTurns turns whose lengths lie around the multiples *)
(* of four.                                                                *)

EstimateLengths == {0, 1, 3, 4, 5, 133, 8000}

EstimateInputs ==
    {MkInput(shapes) :
        shapes \in SeqsUpTo([role : {"user"}, len : EstimateLengths], MaxTurns)}

InitEstimate ==
    /\ InitSessionsIdle
    /\ input \in EstimateInputs
    /\ output = <<>>
    /\ tpc = "ready"
    /\ client = ClientIdle
    /\ WireIdle
    /\ area = AreaIdle

EstimateAll ==
    /\ tpc = "ready"
    /\ output' = [each |-> [i \in DOMAIN input |-> estimateTokens(input[i])],
                  total |-> calculateTotalTokens(input)]
    /\ tpc' = "estimated"
    /\ UNCHANGED <<input, sessionVars, clientVars, wireVars, areaVars>>

NextEstimate == EstimateAll

SpecEstimate == InitEstimate /\ [][NextEstimate]_vars

----------------------------------------------------------------------------
(* Summarization harness: needsSummarization applied to a run of           *)
(* non-system turns around the threshold, between free head and tail.      *)

SummarizeRunLengths == {0, 22, 23, 24}

SummarizeInputs ==
    {MkInput(h \o Run(n, 4) \o t) :
        h \in SeqsUpTo(Shapes, MaxHead), t \in SeqsUpTo(Shapes, MaxTail),
        n \in SummarizeRunLengths}

InitSummarize ==
    /\ InitSessionsIdle
    /\ input \in SummarizeInputs
    /\ output = FALSE
    /\ tpc = "ready"
    /\ client = ClientIdle
    /\ WireIdle
    /\ area = AreaIdle

Summarize ==
    /\ tpc = "ready"
    /\ output' = needsSummarization(input)
    /\ tpc' = "asked"
    /\ UNCHANGED <<input, sessionVars, clientVars, wireVars, areaVars>>

NextSummarize == Summarize

SpecSummarize == InitSummarize /\ [][NextSummarize]_vars

----------------------------------------------------------------------------
(* Input validation.  A request's message is a record                      *)
(*   [type, lead, body, trail, pat]: type is its typeof, lead and trail    *)
(* count the whitespace characters around the text, body is the length of  *)
(* content.trim(), and pat names the unsafe pattern the text matches       *)
(* ("none" if none).                                                       *)

Content(lead, body, trail, pat) ==
    [type |-> "string", lead |-> lead, body |-> body, trail |-> trail, pat |-> pat]

\* what a JSON body can hold in place of the string
NonString(type) == [type |-> type, lead |-> 0, body |-> 0, trail |-> 0, pat |-> "none"]

ContentLength(content) == content.lead + content.body + content.trail

Patterns == {"javascript:", "<script", "on=", "eval("}

\* contextManager.ts:121-126  the shortest text each pattern matches:
\* "javascript:", "<script", "onx=", "eval("
PatternLength(pat) ==
    CASE pat = "javascript:" -> 11
      [] pat = "<script" -> 7
      [] pat = "on=" -> 4
      [] pat = "eval(" -> 5
      [] OTHER -> 0

\* a mutant: the patterns are tested before the length
validateMessage_patternsFirst(content) ==
    IF content.type # "string" \/ ContentLength(content) = 0
    THEN "Message content must be a non-empty string"
    ELSE IF content.body = 0 THEN "Message cannot be empty"
    ELSE IF content.pat \in Patterns THEN "Message contains potentially unsafe content"
    ELSE IF ContentLength(content) > MAX_CONTENT_LENGTH
         THEN "Message is too long (maximum 10,000 characters)"
    ELSE "valid"

\* contextManager.ts:107-135  the error, or "valid".  The length test of
\* line 116 reads content.length, the untrimmed length.
validateMessage(content) ==
    IF content.type # "string" \/ ContentLength(content) = 0
    THEN "Message content must be a non-empty string"
    ELSE IF content.body = 0 THEN "Message cannot be empty"
    ELSE IF ContentLength(content) > MAX_CONTENT_LENGTH
         THEN "Message is too long (maximum 10,000 characters)"
    ELSE IF content.pat \in Patterns THEN "Message contains potentially unsafe content"
    ELSE "valid"

----------------------------------------------------------------------------
(* Validator harness: validateMessage applied to one value of a bounded    *)
(* family: text of a length around the limit, with and without an unsafe   *)
(* pattern, inside up to MaxPad whitespace characters on either side, and  *)
(* the values that are no string.                                          *)

BodyLengths == {0, 4, 11, 9999, 10000, 10001}
NonStringTypes == {"undefined", "number", "object"}

\* a text holds a match of a pattern only if it is long enough for one
StringInputs ==
    {content \in {Content(lead, body, trail, pat) :
                     lead \in 0..MaxPad, trail \in 0..MaxPad,
                     body \in BodyLengths, pat \in Patterns \cup {"none"}} :
        content.body >= PatternLength(content.pat)}

ValidateInputs == StringInputs \cup {NonString(type) : type \in NonStringTypes}

InitValidate ==
    /\ InitSessionsIdle
    /\ input \in ValidateInputs
    /\ output = ""
    /\ tpc = "ready"
    /\ client = ClientIdle
    /\ WireIdle
    /\ area = AreaIdle

Validate ==
    /\ tpc = "ready"
    /\ output' = validateMessage(input)
    /\ tpc' = "validated"
    /\ UNCHANGED <<input, sessionVars, clientVars, wireVars, areaVars>>

NextValidate == Validate

SpecValidate == InitValidate /\ [][NextValidate]_vars

----------------------------------------------------------------------------
(* The chat router *)

ConvIds == {"c1", "c2"}

\* The ids are opaque: a conversation that is new to the server comes under
\* the first id no request has named yet.
Named(c) == conversations[c] # 0 \/ \E q \in DOMAIN req : req[q].conv = c
KnownOrNext(c) == c = "c2" => Named("c1")

\* the messages a client sends: a short padded one, one of the greatest
\* length the validator lets through, and a blank one
ChatContents ==
    {Content(1, 4, 1, "none"), Content(0, 10000, 0, "none"), Content(2, 0, 0, "none")}
ReplyLengths == {8000}          \* what the provider answers
ChunkLengths == {4000}          \* the fragments of a stream
TickHours == {24, 25}           \* the steps of the clock: up to, and past, the idle limit

Reqs == 1..MaxReqs

\* uuidv4 (chat.ts:13, 54, 78, 122) never repeats: the ids of the messages
\* that request r makes
SystemId(r) == 3 * r - 2
UserId(r) == 3 * r - 1
AssistantId(r) == 3 * r

\* the identities of the arrays that request r can make
SeedArray(r) == 2 * r - 1
TrimArray(r) == 2 * r

NoSession == [messages |-> 0, lastActivity |-> 0]

NewReq ==
    [pc |-> "new", conv |-> "", data |-> 0, msgs |-> 0, stream |-> FALSE,
     fullResponse |-> 0, chunks |-> 0, calls |-> 0, during |-> {}, gone |-> FALSE]

\* chat.ts:12-17
addSystemMessage(id) == [id |-> id, role |-> "system", len |-> SYSTEM_CONTENT_LENGTH]

\* the requests suspended at an await of the provider
InFlight(r) == req[r].pc \in {"awaiting", "streaming"}

\* the messages of the session stored under c (chat.ts:10)
History(c) == arrays[sessions[conversations[c]].messages]

Init ==
    /\ conversations = [c \in ConvIds |-> 0]
    /\ sessions = [r \in Reqs |-> NoSession]
    /\ arrays = [a \in 1..(2 * MaxReqs) |-> <<>>]
    /\ req = [r \in Reqs |-> NewReq]
    /\ nextReq = 1
    /\ now = 0
    /\ input = <<>>
    /\ output = <<>>
    /\ tpc = "off"
    /\ client = ClientIdle
    /\ WireIdle
    /\ area = AreaIdle

\* the handler has returned: its local variables are no more (the history
\* of a request that has appended its answer stays)
Ended(r, pc) ==
    IF pc = "done"
    THEN [NewReq EXCEPT !.pc = pc, !.conv = req[r].conv, !.calls = req[r].calls,
                        !.during = req[r].during, !.gone = req[r].gone]
    ELSE [NewReq EXCEPT !.pc = pc, !.calls = req[r].calls]

\* The step's new map, objects, arrays and requests.  What nothing refers to
\* any more (no entry of the map, no local variable of a suspended request)
\* is garbage, and is left out of the state as the runtime leaves it out of
\* the heap.
Store(convs, sess, arrs, rq) ==
    LET liveObjs == ({convs[c] : c \in ConvIds} \cup {rq[r].data : r \in Reqs}) \ {0}
        liveArrs == ({sess[o].messages : o \in liveObjs} \cup {rq[r].msgs : r \in Reqs}) \ {0}
    IN  /\ conversations' = convs
        /\ req' = rq
        /\ sessions' = [o \in DOMAIN sess |-> IF o \in liveObjs THEN sess[o] ELSE NoSession]
        /\ arrays' = [a \in DOMAIN arrs |-> IF a \in liveArrs THEN arrs[a] ELSE <<>>]

\* a mutant: the time of the last activity is left as it was
Touched_stale(obj, arr) == [messages |-> arr, lastActivity |-> sessions[obj].lastActivity]

\* chat.ts:67-68, 101-102, 130-131: conversationData.messages = ...;
\* conversationData.lastActivity = new Date()
Touched(obj, arr) == [messages |-> arr, lastActivity |-> now]

\* a mutant: the message is validated after the session has been looked up
\* and, when there is none, created
Rejected_afterCreate(r, c) ==
    IF conversations[c] # 0
    THEN /\ req' = [req EXCEPT ![r] = Ended(r, "rejected")]
         /\ UNCHANGED <<conversations, sessions, arrays>>
    ELSE Store([conversations EXCEPT ![c] = r],
               [sessions EXCEPT ![r] = [messages |-> SeedArray(r), lastActivity |-> now]],
               [arrays EXCEPT ![SeedArray(r)] = <<addSystemMessage(SystemId(r))>>],
               [req EXCEPT ![r] = Ended(r, "rejected")])

\* chat.ts:34-39: the validation error is thrown before the map is read
Rejected(r, c) ==
    /\ req' = [req EXCEPT ![r] = Ended(r, "rejected")]
    /\ UNCHANGED <<conversations, sessions, arrays>>

\* a mutant: a system message is added for every message, not only the first
Opened_reseeds(r, c) ==
    IF conversations[c] # 0
    THEN [arrays EXCEPT ![sessions[conversations[c]].messages] =
             Append(@, addSystemMessage(SystemId(r)))]
    ELSE [arrays EXCEPT ![SeedArray(r)] = <<addSystemMessage(SystemId(r))>>]

\* chat.ts:43-48: the arrays once the session of c is there: a session that
\* the map has is left as it is, a new one starts as [addSystemMessage()]
Opened(r, c) ==
    IF conversations[c] # 0
    THEN arrays
    ELSE [arrays EXCEPT ![SeedArray(r)] = <<addSystemMessage(SystemId(r))>>]

\* chat.ts:41-82 and 119: the session is made if the map has none, the user
\* message pushed, the list trimmed and stored, and the provider called with it
Accepted(r, c, content, stream) ==
    LET has == conversations[c] # 0
        obj == IF has THEN conversations[c] ELSE r
        seeded == Opened(r, c)
        arr0 == IF has THEN sessions[obj].messages ELSE SeedArray(r)
        userMessage == [id |-> UserId(r), role |-> "user", len |-> content.body]
        pushed == [seeded EXCEPT ![arr0] = Append(@, userMessage)]
        same == WithinLimits(pushed[arr0])
        arr == IF same THEN arr0 ELSE TrimArray(r)
    IN  Store([conversations EXCEPT ![c] = obj],
              [sessions EXCEPT ![obj] = Touched(obj, arr)],
              IF same THEN pushed
              ELSE [pushed EXCEPT ![arr] = trimConversation(pushed[arr0])],
              [req EXCEPT ![r] =
                  [pc |-> IF stream THEN "streaming" ELSE "awaiting",
                   conv |-> c, data |-> obj, msgs |-> arr, stream |-> stream,
                   fullResponse |-> 0, chunks |-> 0, calls |-> 1,
                   during |-> {q \in Reqs : InFlight(q) /\ req[q].conv = c},
                   gone |-> FALSE]])

\* chat.ts:29-82 and 119: POST / up to its await of the provider.
\* conversationId || uuidv4(): an absent id is an id the map does not hold.
Post(c, content, stream) ==
    LET r == nextReq IN
    /\ r <= MaxReqs
    /\ KnownOrNext(c)
    /\ nextReq' = r + 1
    /\ IF validateMessage(content) # "valid"
       THEN Rejected(r, c)
       ELSE Accepted(r, c, content, stream)
    /\ UNCHANGED <<now, trimVars, clientVars, wireVars, areaVars>>

\* chat.ts:100-103 and 129-132: the assistant message is pushed onto the
\* request's own array, which is put back into the request's own session
\* object, which is put back into the map
AppendAssistant(r, len) ==
    LET arr == req[r].msgs
        obj == req[r].data
    IN  Store([conversations EXCEPT ![req[r].conv] = obj],
              [sessions EXCEPT ![obj] = Touched(obj, arr)],
              [arrays EXCEPT ![arr] =
                  Append(@, [id |-> AssistantId(r), role |-> "assistant", len |-> len])],
              [req EXCEPT ![r] = Ended(r, "done")])

\* chat.ts:119-139: the provider has answered
Complete(r, len) ==
    /\ req[r].pc = "awaiting"
    /\ AppendAssistant(r, len)
    /\ UNCHANGED <<nextReq, now, trimVars, clientVars, wireVars, areaVars>>

\* a mutant: a call that has thrown is made again
Fail_retry(r) ==
    /\ req[r].pc = "awaiting"
    /\ Store(conversations, sessions, arrays, [req EXCEPT ![r].calls = @ + 1])
    /\ UNCHANGED <<nextReq, now, trimVars, clientVars, wireVars, areaVars>>

\* chat.ts:119, 141-143: the provider has thrown, the error goes to next()
Fail(r) ==
    /\ req[r].pc = "awaiting"
    /\ Store(conversations, sessions, arrays, [req EXCEPT ![r] = Ended(r, "failed")])
    /\ UNCHANGED <<nextReq, now, trimVars, clientVars, wireVars, areaVars>>

\* chat.ts:82-90: one fragment of the stream (openai.ts:63 yields no empty one)
StreamChunk(r, len) ==
    /\ req[r].pc = "streaming"
    /\ req[r].chunks < MaxChunks
    /\ req' = [req EXCEPT ![r] = [@ EXCEPT !.fullResponse = @ + len, !.chunks = @ + 1]]
    /\ UNCHANGED <<conversations, sessions, arrays, nextReq, now, trimVars, clientVars, wireVars, areaVars>>

\* chat.ts:92-113: the stream has ended
StreamEnd(r) ==
    /\ req[r].pc = "streaming"
    /\ AppendAssistant(r, req[r].fullResponse)
    /\ UNCHANGED <<nextReq, now, trimVars, clientVars, wireVars, areaVars>>

\* chat.ts:114-117: the stream has thrown
StreamFail(r) ==
    /\ req[r].pc = "streaming"
    /\ Store(conversations, sessions, arrays, [req EXCEPT ![r] = Ended(r, "failed")])
    /\ UNCHANGED <<nextReq, now, trimVars, clientVars, wireVars, areaVars>>

\* history: the suspended requests whose session object is among objs lose it
Orphan(objs) ==
    [r \in Reqs |-> IF InFlight(r) /\ req[r].data \in objs
                    THEN [req[r] EXCEPT !.gone = TRUE] ELSE req[r]]

\* a mutant: the test for a missing session is left out
GetReply_found(c) ==
    [status |-> 200,
     messages |-> IF conversations[c] = 0 THEN <<>> ELSE nonSystemMessages(History(c)),
     lastActivity |-> IF conversations[c] = 0 THEN 0
                      ELSE sessions[conversations[c]].lastActivity]

\* chat.ts:149-163: the answer of GET /conversation/:id
GetReply(c) ==
    IF conversations[c] = 0
    THEN [status |-> 404, messages |-> <<>>, lastActivity |-> 0]
    ELSE [status |-> 200,
          messages |-> nonSystemMessages(History(c)),
          lastActivity |-> sessions[conversations[c]].lastActivity]

\* chat.ts:146-167: GET /conversation/:id reads the map and answers
Get(c) ==
    /\ GetReply(c).status \in {200, 404}
    /\ UNCHANGED <<sessionVars, trimVars, clientVars, wireVars, areaVars>>

\* chat.ts:172-180: the status of the answer of DELETE /conversation/:id;
\* conversations.delete(id) is true when there was an entry
DeleteReply(c) == IF conversations[c] # 0 THEN 200 ELSE 404

\* a mutant: the whole map is emptied
Delete_clear(c) ==
    /\ IF conversations[c] # 0
       THEN Store([d \in ConvIds |-> 0], sessions, arrays,
                  Orphan({conversations[d] : d \in ConvIds}))
       ELSE UNCHANGED <<conversations, sessions, arrays, req>>
    /\ UNCHANGED <<nextReq, now, trimVars, clientVars, wireVars, areaVars>>

\* chat.ts:169-184: DELETE /conversation/:id (404 when the map has no entry)
Delete(c) ==
    /\ IF conversations[c] # 0
       THEN Store([conversations EXCEPT ![c] = 0], sessions, arrays,
                  Orphan({conversations[c]}))
       ELSE UNCHANGED <<conversations, sessions, arrays, req>>
    /\ UNCHANGED <<nextReq, now, trimVars, clientVars, wireVars, areaVars>>

\* chat.ts:20-27: one run of the hourly sweep
Sweep ==
    LET old == {c \in ConvIds : /\ conversations[c] # 0
                                /\ shouldCleanupConversation(
                                       sessions[conversations[c]].lastActivity)}
    IN  /\ Store([c \in ConvIds |-> IF c \in old THEN 0 ELSE conversations[c]],
                 sessions, arrays, Orphan({conversations[c] : c \in old}))
        /\ UNCHANGED <<nextReq, now, trimVars, clientVars, wireVars, areaVars>>

\* time passes
Tick(d) ==
    /\ now + d <= MaxTime
    /\ now' = now + d
    /\ UNCHANGED <<conversations, sessions, arrays, req, nextReq, trimVars, clientVars, wireVars, areaVars>>

Next ==
    \/ \E c \in ConvIds, content \in ChatContents, stream \in BOOLEAN : Post(c, content, stream)
    \/ \E r \in Reqs, len \in ReplyLengths : Complete(r, len)
    \/ \E r \in Reqs : Fail(r)
    \/ \E r \in Reqs, len \in ChunkLengths : StreamChunk(r, len)
    \/ \E r \in Reqs : StreamEnd(r)
    \/ \E r \in Reqs : StreamFail(r)
    \/ \E c \in ConvIds : Delete(c)
    \/ Sweep
    \/ \E d \in TickHours : Tick(d)

Spec == Init /\ [][Next]_vars

\* the router with its read operation, without the sweep: the requests, the
\* reads and the deletes in every order, and a clock that moves
NextRead ==
    \/ \E c \in ConvIds, content \in ChatContents, stream \in BOOLEAN : Post(c, content, stream)
    \/ \E r \in Reqs, len \in ReplyLengths : Complete(r, len)
    \/ \E r \in Reqs : Fail(r)
    \/ \E r \in Reqs, len \in ChunkLengths : StreamChunk(r, len)
    \/ \E r \in Reqs : StreamEnd(r)
    \/ \E r \in Reqs : StreamFail(r)
    \/ \E c \in ConvIds : Delete(c)
    \/ \E c \in ConvIds : Get(c)
    \/ Tick(CLEANUP_AFTER_HOURS)

SpecRead == Init /\ [][NextRead]_vars

----------------------------------------------------------------------------
(* The chat window of the frontend (ChatWindow, useOptimisticMessages,     *)
(* ChatService.sendMessageStream).  A message of the window is a record    *)
(* [role, content, status]; a content is the sequence of the texts it was  *)
(* put together from; the id of a message is its place in the list.  The   *)
(* server is what its stream branch (chat.ts:71-117) can write: fragments, *)
(* then the closing event or the error event.                              *)

UserTexts == {"hello", "again"}
Fragments == {"a", "b"}

\* part_005:107, 131
FailureText == <<"Sorry, I encountered an error. Please try again.">>

\* part_003:12-23  (the new list; the id of the new message is its length)
addOptimisticMessage(messages, content, role, status) ==
    Append(messages, [role |-> role, content |-> content, status |-> status])

\* part_003:26-34  a list without the id is left as it is
updateMessageStatus(messages, messageId, status) ==
    [i \in DOMAIN messages |->
        IF i = messageId THEN [messages[i] EXCEPT !.status = status] ELSE messages[i]]

\* part_003:37-45
updateMessageContent(messages, messageId, content, status) ==
    [i \in DOMAIN messages |->
        IF i = messageId THEN [messages[i] EXCEPT !.content = content, !.status = status]
        ELSE messages[i]]

\* part_005:100-109  the onError callback of handleSendMessage
onError(messages) == updateMessageContent(messages, client.target, FailureText, "error")

\* part_005:112-118, 134-136: sendMessageStream has returned: the assistant
\* message is marked as sent and the window stops loading.  The call returns
\* in the same turn of the event loop in which its last callback ran.
Returned(messages, ended) ==
    client' = [client EXCEPT !.pc = "idle",
                             !.messages = updateMessageStatus(messages, client.target, "sent"),
                             !.assistantContent = <<>>,
                             !.isLoading = FALSE,
                             !.ended = ended]

\* part_005:69-88, part_008:38: handleSendMessage up to the fetch
Send(text) ==
    /\ ~client.isLoading
    /\ Len(client.messages) < 2 * MaxSends
    /\ LET withUser == updateMessageStatus(
                           addOptimisticMessage(client.messages, <<text>>, "user", "sending"),
                           Len(client.messages) + 1, "sent")
           withBoth == addOptimisticMessage(withUser, <<>>, "assistant", "streaming")
       IN  client' = [client EXCEPT !.pc = "fetching", !.messages = withBoth,
                                    !.target = Len(withBoth), !.assistantContent = <<>>,
                                    !.isLoading = TRUE, !.ended = ""]
    /\ UNCHANGED <<sessionVars, trimVars, wireVars, areaVars>>

\* part_008:38-57, 99-102: the fetch rejects, or answers with an error
\* status (the 400 of the validator, a 500) or without a body: the error is
\* thrown to the catch of line 99, which calls onError and returns
FetchFails ==
    /\ client.pc = "fetching"
    /\ Returned(onError(client.messages), "no stream")
    /\ UNCHANGED <<sessionVars, trimVars, wireVars, areaVars>>

\* part_008:50-60: the response is there and its body is being read
FetchOpens ==
    /\ client.pc = "fetching"
    /\ client' = [client EXCEPT !.pc = "reading"]
    /\ UNCHANGED <<sessionVars, trimVars, wireVars, areaVars>>

\* chat.ts:82-90, part_008:83-85, part_005:95-98: a fragment event
ReadChunk(chunk) ==
    /\ client.pc = "reading"
    /\ Len(client.assistantContent) < MaxChunks
    /\ LET assistantContent == client.assistantContent \o <<chunk>>
       IN  client' = [client EXCEPT
                         !.assistantContent = assistantContent,
                         !.messages = updateMessageContent(client.messages, client.target,
                                                           assistantContent, "streaming")]
    /\ UNCHANGED <<sessionVars, trimVars, wireVars, areaVars>>

\* chat.ts:105-113, part_008:87-89: the closing event (its chunk is '')
ReadDone ==
    /\ client.pc = "reading"
    /\ Returned(client.messages, "done")
    /\ UNCHANGED <<sessionVars, trimVars, wireVars, areaVars>>

\* chat.ts:114-117, part_008:78-81: the error event of a provider that failed
ReadError ==
    /\ client.pc = "reading"
    /\ Returned(onError(client.messages), "error")
    /\ UNCHANGED <<sessionVars, trimVars, wireVars, areaVars>>

\* part_008:64-66: the body ends without a closing event
ReadClosed ==
    /\ client.pc = "reading"
    /\ Returned(client.messages, "closed")
    /\ UNCHANGED <<sessionVars, trimVars, wireVars, areaVars>>

\* part_005:185-196: handleClearChat; a send under way goes on
handleClearChat ==
    /\ client.messages # <<>>
    /\ client' = [client EXCEPT !.messages = <<>>]
    /\ UNCHANGED <<sessionVars, trimVars, wireVars, areaVars>>

InitClient ==
    /\ InitSessionsIdle
    /\ input = <<>>
    /\ output = <<>>
    /\ tpc = "off"
    /\ client = ClientIdle
    /\ WireIdle
    /\ area = AreaIdle

NextClient ==
    \/ \E text \in UserTexts : Send(text)
    \/ FetchFails
    \/ FetchOpens
    \/ \E chunk \in Fragments : ReadChunk(chunk)
    \/ ReadDone
    \/ ReadError
    \/ ReadClosed
    \/ handleClearChat

SpecClient == InitClient /\ [][NextClient]_vars

----------------------------------------------------------------------------
(* The stream of one accepted request with stream: true: the writes of the *)
(* server (chat.ts:71-117), the connection, and the reads of               *)
(* ChatService.sendMessageStream (part_008:31-103).  A text is the         *)
(* sequence of the fragments it is put together from.  What goes over the  *)
(* connection is a sequence of pieces [sym, val]: a read returns any       *)
(* number of the pieces that have been written and not yet read, so that   *)
(* an event can arrive cut anywhere between two pieces.                    *)

MaxFragments == 2

Piece(sym) == [sym |-> sym, val |-> <<>>]
Newline == Piece("LF")

\* chat.ts:84-89, 105-111, 115: the three objects the branch writes
ChunkEvent(chunk) ==
    [chunk |-> chunk, done |-> FALSE, fullMessage |-> <<>>, error |-> <<>>]
DoneEvent(fullMessage) ==
    [chunk |-> <<>>, done |-> TRUE, fullMessage |-> fullMessage, error |-> <<>>]
ErrorEvent ==
    [chunk |-> <<>>, done |-> FALSE, fullMessage |-> <<>>,
     error |-> <<"Failed to generate response">>]

\* JSON.stringify of such an object: the error event has the one key
stringify(e) ==
    <<Piece("{")>>
    \o (IF e.error # <<>>
        THEN <<[sym |-> "error", val |-> e.error]>>
        ELSE <<[sym |-> "chunk", val |-> e.chunk], Piece("messageId"),
               Piece("conversationId"),
               Piece(IF e.done THEN "done:true" ELSE "done:false")>>
             \o (IF e.done THEN <<[sym |-> "fullMessage", val |-> e.fullMessage]>>
                 ELSE <<>>))
    \o <<Piece("}")>>

\* chat.ts:84, 105, 115: `data: ${JSON.stringify(...)}\n\n`
Framed(e) == <<Piece("data"), Piece(": ")>> \o stringify(e) \o <<Newline, Newline>>

\* all that res.write has put on the connection
RECURSIVE Bytes(_)
Bytes(events) ==
    IF events = <<>> THEN <<>> ELSE Framed(Head(events)) \o Bytes(Tail(events))

\* a mutant: the done event is written without the assistant message pushed
WriteDone_unstored ==
    /\ sse.pc = "open"
    /\ sse' = [sse EXCEPT !.written = Append(@, DoneEvent(sse.fullResponse)),
                                !.pc = "closed"]
    /\ UNCHANGED <<call, sessionVars, trimVars, clientVars, areaVars>>

\* chat.ts:82-90: the provider yields a fragment (openai.ts:63: not an empty one)
WriteChunk(chunk) ==
    /\ sse.pc = "open"
    /\ Len(sse.yielded) < MaxFragments
    /\ sse' = [sse EXCEPT !.yielded = Append(@, chunk),
                                !.fullResponse = @ \o <<chunk>>,
                                !.written = Append(@, ChunkEvent(<<chunk>>))]
    /\ UNCHANGED <<call, sessionVars, trimVars, clientVars, areaVars>>

\* chat.ts:92-113: the provider is done: the assistant message is pushed,
\* then the done event written and the response ended
WriteDone ==
    /\ sse.pc = "open"
    /\ sse' = [sse EXCEPT
                     !.messages = Append(@, [role |-> "assistant",
                                             content |-> sse.fullResponse]),
                     !.written = Append(@, DoneEvent(sse.fullResponse)),
                     !.pc = "closed"]
    /\ UNCHANGED <<call, sessionVars, trimVars, clientVars, areaVars>>

\* chat.ts:114-117: the provider has thrown
WriteError ==
    /\ sse.pc = "open"
    /\ sse' = [sse EXCEPT !.written = Append(@, ErrorEvent), !.pc = "closed"]
    /\ UNCHANGED <<call, sessionVars, trimVars, clientVars, areaVars>>

\* part_008:69: buffer.split('\n')
RECURSIVE split(_)
split(text) ==
    IF \A i \in 1..Len(text) : text[i] # Newline
    THEN <<text>>
    ELSE LET i == CHOOSE j \in 1..Len(text) :
                      /\ text[j] = Newline
                      /\ \A k \in 1..(j - 1) : text[k] # Newline
         IN  <<SubSeq(text, 1, i - 1)>> \o split(SubSeq(text, i + 1, Len(text)))

\* part_008:74: line.startsWith('data: ')
startsWithData(line) == Len(line) >= 2 /\ line[1].sym = "data" /\ line[2].sym = ": "

\* part_008:76: JSON.parse returns for a whole object and throws otherwise
Parsable(text) ==
    /\ Len(text) >= 2
    /\ text[1].sym = "{"
    /\ text[Len(text)].sym = "}"
    /\ \A i \in 2..(Len(text) - 1) : text[i].sym \notin {"{", "}", "data", ": "}

\* the value of a key of the parsed object (undefined: <<>>)
Value(text, key) ==
    IF \E i \in 1..Len(text) : text[i].sym = key
    THEN text[CHOOSE i \in 1..Len(text) : text[i].sym = key].val
    ELSE <<>>

\* part_008:76: JSON.parse(line.slice(6))
parse(text) ==
    [error |-> Value(text, "error"),
     chunk |-> Value(text, "chunk"),
     done |-> \E i \in 1..Len(text) : text[i].sym = "done:true"]

\* a callback invoked with an argument
Called(fn, arg) == [fn |-> fn, arg |-> arg]

\* part_008:73-94: the loop over the complete lines of one read; returned is
\* true when the function has returned from inside the loop
RECURSIVE ForLines(_, _)
ForLines(lines, callbacks) ==
    IF lines = <<>>
    THEN [callbacks |-> callbacks, returned |-> FALSE]
    ELSE LET line == Head(lines)
             text == SubSeq(line, 3, Len(line))
         IN  IF ~startsWithData(line) \/ ~Parsable(text)
             THEN ForLines(Tail(lines), callbacks)
             ELSE LET data == parse(text)
                      called == IF data.chunk # <<>>
                                THEN Append(callbacks, Called("onChunk", data.chunk))
                                ELSE callbacks
                  IN  IF data.error # <<>>
                      THEN [callbacks |-> Append(callbacks, Called("onError", data.error)),
                            returned |-> TRUE]
                      ELSE IF data.done
                           THEN [callbacks |-> called, returned |-> TRUE]
                           ELSE ForLines(Tail(lines), called)

\* a mutant: the unfinished line is not kept for the next read
Kept_none(lines) == <<>>

\* part_008:71: buffer = lines.pop() || ''
Kept(lines) == lines[Len(lines)]

\* part_008:38-52, 100-102: fetch throws or the answer is not ok
FetchRejects ==
    /\ call.pc = "fetching"
    /\ call' = [call EXCEPT !.pc = "returned",
                            !.callbacks = Append(@, Called("onError", <<"HTTP error">>))]
    /\ UNCHANGED <<sse, sessionVars, trimVars, clientVars, areaVars>>

\* part_008:38-60: the answer is there and its body has a reader
FetchAnswers ==
    /\ call.pc = "fetching"
    /\ call' = [call EXCEPT !.pc = "reading"]
    /\ UNCHANGED <<sse, sessionVars, trimVars, clientVars, areaVars>>

\* part_008:64-94: one read that returns n pieces
Read(n) ==
    LET sent == Bytes(sse.written)
        value == SubSeq(sent, call.read + 1, call.read + n)
        lines == split(call.buffer \o value)
        loop == ForLines(SubSeq(lines, 1, Len(lines) - 1), call.callbacks)
    IN  /\ call.pc = "reading"
        /\ call.read + n <= Len(sent)
        /\ call' = [pc |-> IF loop.returned THEN "returned" ELSE "reading",
                    read |-> call.read + n,
                    buffer |-> IF loop.returned THEN <<>> ELSE Kept(lines),
                    callbacks |-> loop.callbacks]
        /\ UNCHANGED <<sse, sessionVars, trimVars, clientVars, areaVars>>

\* part_008:65-67: the body has ended, the loop is left.  A body ends where
\* the connection closes: that can be before the server's last event, and
\* inside a line, which then stays in the buffer unread.
ReaderDone ==
    /\ call.pc = "reading"
    /\ call' = [call EXCEPT !.pc = "returned", !.buffer = <<>>]
    /\ UNCHANGED <<sse, sessionVars, trimVars, clientVars, areaVars>>

\* part_008:65, 100-102: reader.read() rejects
ReaderThrows ==
    /\ call.pc = "reading"
    /\ call' = [call EXCEPT !.pc = "returned", !.buffer = <<>>,
                            !.callbacks = Append(@, Called("onError", <<"network error">>))]
    /\ UNCHANGED <<sse, sessionVars, trimVars, clientVars, areaVars>>

\* the most pieces one event has
MaxPieces == Len(Framed(DoneEvent(<<>>)))

InitStream ==
    /\ InitSessionsIdle
    /\ input = <<>>
    /\ output = <<>>
    /\ tpc = "off"
    /\ client = ClientIdle
    /\ sse = [StreamIdle EXCEPT
                    !.pc = "open",
                    !.messages = <<[role |-> "user", content |-> <<"hello">>]>>]
    /\ call = [CallIdle EXCEPT !.pc = "fetching"]
    /\ area = AreaIdle

NextStream ==
    \/ \E chunk \in Fragments : WriteChunk(chunk)
    \/ WriteDone
    \/ WriteError
    \/ FetchRejects
    \/ FetchAnswers
    \/ \E n \in 1..((MaxFragments + 1) * MaxPieces) : Read(n)
    \/ ReaderDone
    \/ ReaderThrows

SpecStream == InitStream /\ [][NextStream]_vars

----------------------------------------------------------------------------
(* The input area of the frontend: validateMessage and sanitizeInput of    *)
(* lib/validation.ts and InputArea.handleSend (part_006).  What is typed   *)
(* is a sequence of segments [kind, n], n the number of its characters:    *)
(*   "text"     letters that match no pattern and repeat no character      *)
(*   "space"    a blank                                                    *)
(*   "control"  a control character that is no whitespace, as \x01         *)
(*   "&"        an ampersand                                               *)
(*   "java", "script:"  these letters: one after the other they are the    *)
(*              text javascript:                                           *)
(*   "run"      one letter 51 times                                        *)
(* and what sanitizeInput makes of it has "&amp;" for "&".                 *)

FRONTEND_MAX_LENGTH == 10000
MaxSegments == 3

TextLengths == {1, 9998}

Segments ==
    {[kind |-> "text", n |-> n] : n \in TextLengths}
    \cup {[kind |-> "space", n |-> 1], [kind |-> "control", n |-> 1],
          [kind |-> "&", n |-> 1], [kind |-> "java", n |-> 4],
          [kind |-> "script:", n |-> 7], [kind |-> "run", n |-> 51]}

TypedInputs == SeqsUpTo(Segments, MaxSegments)

\* string.length
RECURSIVE length(_)
length(text) == IF text = <<>> THEN 0 ELSE Head(text).n + length(Tail(text))

\* String.prototype.trim: the whitespace at both ends goes
RECURSIVE trimStart(_)
trimStart(text) ==
    IF text # <<>> /\ Head(text).kind = "space" THEN trimStart(Tail(text)) ELSE text

RECURSIVE trimEnd(_)
trimEnd(text) ==
    IF text # <<>> /\ text[Len(text)].kind = "space"
    THEN trimEnd(SubSeq(text, 1, Len(text) - 1))
    ELSE text

trim(text) == trimEnd(trimStart(text))

\* /javascript:/ matches (of the patterns of both validators the one that
\* the segments can spell)
MatchesJavascript(text) ==
    \E i \in 1..(Len(text) - 1) : text[i].kind = "java" /\ text[i + 1].kind = "script:"

\* validation.ts:81-82: /(.)\1{50,}/ matches
MatchesRepeated(text) == \E i \in 1..Len(text) : text[i].kind = "run"

\* validation.ts:6-24: the control characters are taken out, then the HTML
\* characters are replaced by their entities
RECURSIVE sanitizeInput(_)
sanitizeInput(text) ==
    IF text = <<>> THEN <<>>
    ELSE LET c == Head(text)
         IN  (IF c.kind = "control" THEN <<>>
              ELSE IF c.kind = "&" THEN <<[kind |-> "&amp;", n |-> 5 * c.n]>>
              ELSE <<c>>)
             \o sanitizeInput(Tail(text))

\* validation.ts:35-99: validateMessage of the frontend
frontendValidateMessage(content) ==
    LET trimmed == trim(content)
        invalid(error) == [valid |-> FALSE, error |-> error, sanitizedContent |-> <<>>]
    IN  IF length(content) = 0 THEN invalid("Message cannot be empty")
        ELSE IF length(trimmed) = 0 THEN invalid("Message cannot be empty")
        ELSE IF length(trimmed) > FRONTEND_MAX_LENGTH
             THEN invalid("Message is too long (maximum 10,000 characters)")
        ELSE IF MatchesJavascript(trimmed)
             THEN invalid("Message contains potentially unsafe content")
        ELSE IF MatchesRepeated(trimmed)
             THEN invalid("Message contains too many repeated characters")
        ELSE [valid |-> TRUE, error |-> "", sanitizedContent |-> sanitizeInput(trimmed)]

\* part_006:36-46: the validation part of handleSend: what goes to
\* onSendMessage (with the rate limiter granting and the area not disabled)
Passed(message) ==
    LET validation == frontendValidateMessage(message)
    IN  validation.valid /\ length(validation.sanitizedContent) > 0

\* part_005:91-92, part_008:43-47, chat.ts:30-34: the string as the
\* server's validateMessage gets it
Received(text) ==
    LET body == trim(text)
    IN  Content(length(text) - length(trimStart(text)),
                length(body),
                length(trimStart(text)) - length(body),
                IF MatchesJavascript(text) THEN "javascript:" ELSE "none")

InitTyped ==
    /\ InitSessionsIdle
    /\ input \in TypedInputs
    /\ output = <<>>
    /\ tpc = "ready"
    /\ client = ClientIdle
    /\ WireIdle
    /\ area = AreaIdle

\* the message is typed and sent; the server validates what arrives
SendTyped ==
    /\ tpc = "ready"
    /\ output' = LET validation == frontendValidateMessage(input)
                 IN  [validation |-> validation,
                      sent |-> Passed(input),
                      reply |-> IF Passed(input)
                                THEN validateMessage(Received(validation.sanitizedContent))
                                ELSE "not sent"]
    /\ tpc' = "handled"
    /\ UNCHANGED <<input, sessionVars, clientVars, wireVars, areaVars>>

NextTyped == SendTyped

SpecTyped == InitTyped /\ [][NextTyped]_vars

\* part_006:20: new ClientRateLimit(10, 60000)
maxRequests == 10
windowMs == 60000

MaxTicks == 2
MaxGrants == 11

\* the clock moves by a millisecond or by one less than the window
TickMs == {1, windowMs - 1}

\* what the area is sent with
AreaMessages == {<<>>, <<[kind |-> "text", n |-> 1]>>, <<[kind |-> "control", n |-> 1]>>}

\* a mutant: the limit is passed by one
canMakeRequest_over(timestamps, time) ==
    LET kept == SelectSeq(timestamps, LAMBDA t : time - t < windowMs)
    IN  IF Len(kept) > maxRequests
        THEN [returns |-> FALSE, timestamps |-> kept]
        ELSE [returns |-> TRUE, timestamps |-> Append(kept, time)]

\* validation.ts:114-130: canMakeRequest at Date.now() = time: what it
\* returns and what it leaves in this.timestamps
canMakeRequest(timestamps, time) ==
    LET kept == SelectSeq(timestamps, LAMBDA t : time - t < windowMs)
    IN  IF Len(kept) >= maxRequests
        THEN [returns |-> FALSE, timestamps |-> kept]
        ELSE [returns |-> TRUE, timestamps |-> Append(kept, time)]

\* part_006:22-47: handleSend with message typed
handleSend(message, disabled) ==
    LET limit == canMakeRequest(area.timestamps, area.clock)
        validation == frontendValidateMessage(message)
    IN  /\ Len(area.granted) < MaxGrants
        /\ area' = [area EXCEPT
                       !.timestamps = limit.timestamps,
                       !.granted = IF limit.returns THEN Append(@, area.clock) ELSE @,
                       !.last = IF ~limit.returns
                                THEN [granted |-> FALSE, valid |-> FALSE, sent |-> FALSE]
                                ELSE IF ~validation.valid
                                THEN [granted |-> TRUE, valid |-> FALSE, sent |-> FALSE]
                                ELSE [granted |-> TRUE, valid |-> TRUE,
                                      sent |-> length(validation.sanitizedContent) > 0
                                               /\ ~disabled]]
        /\ UNCHANGED <<sessionVars, trimVars, clientVars, wireVars>>

\* time passes
TickArea(ms) ==
    /\ area.ticks < MaxTicks
    /\ area' = [area EXCEPT !.clock = @ + ms, !.ticks = @ + 1]
    /\ UNCHANGED <<sessionVars, trimVars, clientVars, wireVars>>

InitArea ==
    /\ InitSessionsIdle
    /\ input = <<>>
    /\ output = <<>>
    /\ tpc = "off"
    /\ client = ClientIdle
    /\ WireIdle
    /\ area = AreaIdle

NextArea ==
    \/ \E message \in AreaMessages, disabled \in BOOLEAN : handleSend(message, disabled)
    \/ \E ms \in TickMs : TickArea(ms)

SpecArea == InitArea /\ [][NextArea]_vars

----------------------------------------------------------------------------
(* Vocabulary of the properties, written apart from the definitions above  *)

Estimate(turn) == (turn.len + 3) \div 4 + 10

RECURSIVE TotalEstimate(_)
TotalEstimate(turns) ==
    IF turns = <<>> THEN 0 ELSE Estimate(Head(turns)) + TotalEstimate(Tail(turns))

SystemTurns(turns) == SelectSeq(turns, IsSystem)
OtherTurns(turns) == SelectSeq(turns, NotSystem)

UnderLimits(turns) == Len(OtherTurns(turns)) <= 30 /\ TotalEstimate(turns) <= 4000
OverALimit(turns) == ~UnderLimits(turns)

IsSuffixOf(a, b) ==
    /\ Len(a) <= Len(b)
    /\ a = SubSeq(b, Len(b) - Len(a) + 1, Len(b))

\* the turns of a all occur in b, in the order of b (the ids of b are distinct)
IsSubsequenceOf(a, b) ==
    /\ \A i \in 1..Len(a) : \E j \in 1..Len(b) : a[i] = b[j]
    /\ \A i, j \in 1..Len(a) : i < j =>
          \E k, l \in 1..Len(b) : k < l /\ b[k] = a[i] /\ b[l] = a[j]

----------------------------------------------------------------------------
(* Properties of trimConversation, under SpecTrim *)

\* C5: an input with at most 30 non-system turns and at most 4000 estimated
\* tokens in total is returned unchanged: same turns, same order, same length.
C5_IdentityUnderLimits ==
    (tpc = "trimmed" /\ UnderLimits(input)) => output = input

\* C5 witness: an input of exactly 30 non-system turns and a system turn that
\* is not in front, under the token budget, has come back as it went in.
C5_Witness ==
    /\ tpc = "trimmed"
    /\ Len(OtherTurns(input)) = 30
    /\ Len(SystemTurns(input)) = 1
    /\ input[1].role # "system"
    /\ TotalEstimate(input) <= 4000
    /\ output = input

\* C6 as stated: whenever the input has a system turn, at whatever position,
\* the first element of the output is the first system turn of the input.
C6_Original ==
    (tpc = "trimmed" /\ SystemTurns(input) # <<>>) =>
        (output # <<>> /\ output[1] = SystemTurns(input)[1])

\* C6 amended: whenever the input has a system turn and either starts with a
\* system turn or is over a limit, the first element of the output is the
\* first system turn of the input.
C6_SystemFirst ==
    (/\ tpc = "trimmed"
     /\ SystemTurns(input) # <<>>
     /\ (input[1].role = "system" \/ OverALimit(input))) =>
        (output # <<>> /\ output[1] = SystemTurns(input)[1])

\* C6 witness: an input over a limit whose first system turn is not in front
\* and is not its only system turn; the output starts with that turn.
C6_Witness ==
    /\ tpc = "trimmed"
    /\ OverALimit(input)
    /\ Len(SystemTurns(input)) >= 2
    /\ input[1].role # "system"
    /\ output[1] = SystemTurns(input)[1]

\* C7 as stated: every output has at most one system turn, the first system
\* turn of the input, whether or not the input is under the limits.
C7_Original ==
    tpc = "trimmed" =>
        /\ Len(SystemTurns(output)) <= 1
        /\ SystemTurns(output) # <<>> => SystemTurns(output)[1] = SystemTurns(input)[1]

\* C7 amended: every output for an input that is over a limit has at most one
\* system turn, and that turn is the first system turn of the input, also
\* when the input has several system turns.
C7_OneSystemWhenTrimmed ==
    (tpc = "trimmed" /\ OverALimit(input)) =>
        /\ Len(SystemTurns(output)) <= 1
        /\ SystemTurns(output) # <<>> => SystemTurns(output)[1] = SystemTurns(input)[1]

\* C7 witness: an input over a limit with three system turns, one of them
\* behind the last non-system turn, gave an output with exactly one.
C7_Witness ==
    /\ tpc = "trimmed"
    /\ OverALimit(input)
    /\ Len(SystemTurns(input)) = 3
    /\ input[Len(input)].role = "system"
    /\ Len(SystemTurns(output)) = 1

\* C8 as stated: the non-system turns of the output are a subsequence of the
\* input in its order; whenever the input is over a limit they are a
\* contiguous suffix of the input's non-system turns, at most 10 long; for 40
\* non-system turns of 50 estimated tokens each they are exactly the last 10.
C8_Original ==
    tpc = "trimmed" =>
        /\ IsSubsequenceOf(OtherTurns(output), input)
        /\ OverALimit(input) =>
              /\ IsSuffixOf(OtherTurns(output), OtherTurns(input))
              /\ Len(OtherTurns(output)) <= 10
        /\ (/\ Len(OtherTurns(input)) = 40
            /\ \A i \in 1..Len(input) : input[i].role # "system" => Estimate(input[i]) = 50) =>
              OtherTurns(output) = SubSeq(OtherTurns(input), 31, 40)

\* C9: an input with a system turn and at least one non-system turn never
\* comes back with fewer than 2 turns, and a non-empty input never comes back
\* empty.
C9_Floor ==
    tpc = "trimmed" =>
        /\ (SystemTurns(input) # <<>> /\ OtherTurns(input) # <<>>) => Len(output) >= 2
        /\ input # <<>> => output # <<>>

\* C9 witness: the loop stopped at the floor: the input had more than two
\* turns, a system turn among them, and the two turns returned are over 4000.
C9_Witness ==
    /\ tpc = "trimmed"
    /\ SystemTurns(input) # <<>>
    /\ Len(input) > 2
    /\ Len(output) = 2
    /\ TotalEstimate(output) > 4000

\* C10: the output has at most 30 non-system turns, and its estimated tokens
\* are at most 4000 or it has at most 2 turns.
C10_Caps ==
    tpc = "trimmed" =>
        /\ Len(OtherTurns(output)) <= 30
        /\ (TotalEstimate(output) <= 4000 \/ Len(output) <= 2)

\* C10 witness: an input over the token budget was cut by the loop to more
\* than two turns that fit the budget.
C10_Witness ==
    /\ tpc = "trimmed"
    /\ TotalEstimate(input) > 4000
    /\ Len(OtherTurns(input)) >= 10
    /\ Len(output) > 2
    /\ Len(OtherTurns(output)) < 10
    /\ TotalEstimate(output) <= 4000

\* C28: trimming what trimConversation has returned gives the same turns
\* in the same order.
C28_Idempotent ==
    tpc = "retrimmed" => output.again = output.first

\* C28 witness: the first trim cut an input down to two turns that are
\* still over the token budget; the second trim returned these two turns.
C28_Witness ==
    /\ tpc = "retrimmed"
    /\ output.first # input
    /\ Len(output.first) = 2
    /\ TotalEstimate(output.first) > 4000
    /\ output.again = output.first

----------------------------------------------------------------------------
(* Properties of the session store, under Spec *)

IsPrefixOf(a, b) == Len(a) <= Len(b) /\ a = SubSeq(b, 1, Len(a))

\* the ids among ids, in the order in which the turns of history hold them
IdsIn(history, ids) ==
    LET Mine(turn) == turn.id \in ids
        mine == SelectSeq(history, Mine)
    IN  [i \in 1..Len(mine) |-> mine[i].id]

\* a request on the session stored under c is suspended at the provider
Appending(c) == \E r \in Reqs : InFlight(r) /\ req[r].data = conversations[c]

\* C1 as stated: the stored history of a session is never shortened: as long
\* as the session stays in the map, every step leaves the turns it holds where
\* they are and at most appends to them.
C1_Original ==
    [][\A c \in ConvIds :
          (conversations[c] # 0 /\ conversations'[c] = conversations[c]) =>
              IsPrefixOf(History(c), History(c)')]_vars

\* C2 as stated: once two requests for the same conversation, the second of
\* which arrived while the first was suspended, have both completed (the
\* session was not removed meanwhile and no other request was accepted), the
\* stored history holds both user turns and both assistant turns, each
\* exactly once, in one of the two serialization orders.
C2_Original ==
    \A r1, r2 \in Reqs :
        (/\ r1 \in req[r2].during
         /\ req[r1].pc = "done" /\ req[r2].pc = "done"
         /\ ~req[r1].gone /\ ~req[r2].gone
         /\ conversations[req[r2].conv] # 0
         /\ \A r3 \in Reqs \ {r1, r2} : req[r3].pc \in {"new", "rejected"}) =>
            IdsIn(History(req[r2].conv),
                  {UserId(r1), AssistantId(r1), UserId(r2), AssistantId(r2)})
              \in {<<UserId(r1), AssistantId(r1), UserId(r2), AssistantId(r2)>>,
                   <<UserId(r2), AssistantId(r2), UserId(r1), AssistantId(r1)>>}

\* C3 as stated: an identifier with no session gets one only from a new
\* message, as a fresh session object whose history is the seeded system turn
\* and that message's user turn; no suspended request puts an old session
\* object or old turns back.
C3_Original ==
    [][\A c \in ConvIds :
          (conversations[c] = 0 /\ conversations'[c] # 0) =>
              /\ sessions[conversations'[c]] = NoSession
              /\ Len(History(c)') = 2
              /\ History(c)'[1].role = "system"
              /\ History(c)'[2].role = "user"]_vars

\* C4 as stated: a run of the sweep deletes no session on which a request is
\* in flight (its user turn appended, its assistant turn not yet).
C4_Original ==
    [][Sweep =>
          \A c \in ConvIds :
              (conversations[c] # 0 /\ conversations'[c] = 0) => ~Appending(c)]_vars

\* request r has just been turned down by the validator
TurnedDown(r) == req[r].pc = "new" /\ req'[r].pc = "rejected"

\* C13: a request whose message fails validation changes nothing: the map
\* gets no session, no session gets a turn, no lastActivity moves, and the
\* provider is not called.
C13_RejectedFirst ==
    [][\A r \in Reqs :
          TurnedDown(r) =>
              /\ conversations' = conversations
              /\ sessions' = sessions
              /\ arrays' = arrays
              /\ req'[r].calls = 0]_vars

\* C13 witness: the second request was turned down while a session with a
\* completed exchange, last active before now, is in the map.
C13_Witness ==
    /\ req[2].pc = "rejected"
    /\ req[1].pc = "done"
    /\ conversations["c1"] # 0
    /\ Len(History("c1")) = 3
    /\ sessions[conversations["c1"]].lastActivity < now

\* request r has just been let in: its user turn is in the history of the
\* session under req'[r].conv and the provider has been called
LetIn(r) == req[r].pc = "new" /\ req'[r].pc \in {"awaiting", "streaming"}

OneSystemTurnInFront(turns) ==
    /\ turns # <<>>
    /\ turns[1].role = "system"
    /\ \A i \in 2..Len(turns) : turns[i].role # "system"

\* C14: a message for an identifier without a session makes a session of
\* exactly the system turn and then the user turn; a message for an
\* identifier with a session goes to that same session and adds no system
\* turn; and the history of every session in the map starts with a system
\* turn and has no other system turn.
C14_SeededOnce ==
    [][/\ \A r \in Reqs, c \in ConvIds :
            (LetIn(r) /\ req'[r].conv = c) =>
                IF conversations[c] = 0
                THEN /\ sessions[conversations'[c]] = NoSession
                     /\ Len(History(c)') = 2
                     /\ History(c)'[1].role = "system"
                     /\ History(c)'[2].role = "user"
                     /\ History(c)'[2].id = UserId(r)
                ELSE /\ conversations'[c] = conversations[c]
                     /\ SystemTurns(History(c)') = SystemTurns(History(c))
       /\ \A c \in ConvIds :
            conversations'[c] # 0 => OneSystemTurnInFront(History(c)')]_vars

\* C14 witness: a session whose stored history was cut down by the trimmer
\* on its second message still starts with its one system turn, the one it
\* was seeded with.
C14_Witness ==
    /\ conversations["c1"] # 0
    /\ req[1].pc = "done"
    /\ req[2].pc \in {"awaiting", "streaming"}
    /\ req[2].conv = "c1"
    /\ req[2].during = {}
    /\ Len(History("c1")) = 2
    /\ History("c1")[1] = [id |-> SystemId(1), role |-> "system", len |-> 133]
    /\ History("c1")[2].id = UserId(2)

\* request r has just had its answer appended
Answered(r) == req[r].pc \in {"awaiting", "streaming"} /\ req'[r].pc = "done"

\* no other request on the conversation of r is under way
Alone(r) ==
    \A q \in Reqs \ {r} :
        req[q].pc \in {"awaiting", "streaming"} => req[q].conv # req[r].conv

\* C15 as stated: with one request at a time on a conversation and a provider
\* that answers, a cycle makes the stored history two turns longer, however
\* long it was: taking the message in adds the user turn at the end (a new
\* conversation then has 2 turns), and the answer adds the assistant turn
\* right behind it (a new conversation then has 3).
C15_Original ==
    [][\A r \in Reqs, c \in ConvIds :
          /\ (LetIn(r) /\ req'[r].conv = c /\ req'[r].during = {}) =>
                /\ Len(History(c)') = IF conversations[c] = 0 THEN 2 ELSE Len(History(c)) + 1
                /\ History(c)'[Len(History(c)')].id = UserId(r)
          /\ (Answered(r) /\ req[r].conv = c /\ Alone(r) /\ ~req[r].gone) =>
                /\ Len(History(c)') = Len(History(c)) + 1
                /\ History(c)'[Len(History(c)')].id = AssistantId(r)
                /\ History(c)'[Len(History(c)') - 1].id = UserId(r)]_vars

\* the session objects there are
Objects == DOMAIN sessions
Exists(o) == sessions[o].messages # 0

\* C16: a step that appends a user or an assistant turn to a session sets
\* the session's lastActivity to the time of the step; no other step changes
\* the lastActivity of a session; and lastActivity never goes down, neither
\* that of a session object nor that found under a conversation id.
C16_LastActivity ==
    [][/\ \A r \in Reqs :
            /\ LetIn(r) => sessions'[req'[r].data].lastActivity = now
            /\ Answered(r) => sessions'[req[r].data].lastActivity = now
       /\ \A o \in Objects :
            (Exists(o) /\ Exists(o)') =>
                /\ sessions'[o].lastActivity >= sessions[o].lastActivity
                /\ sessions'[o].lastActivity # sessions[o].lastActivity =>
                      \E r \in Reqs : \/ (LetIn(r) /\ req'[r].data = o)
                                       \/ (Answered(r) /\ req[r].data = o)
       /\ \A c \in ConvIds :
            (conversations[c] # 0 /\ conversations'[c] # 0) =>
                sessions'[conversations'[c]].lastActivity
                    >= sessions[conversations[c]].lastActivity]_vars

\* C16 witness: a session made at hour 0 whose answer was appended at hour 24
\* has 24 as its lastActivity.
C16_Witness ==
    /\ now = 24
    /\ req[1].pc = "done"
    /\ ~req[1].gone
    /\ req[2].pc = "new"
    /\ conversations["c1"] # 0
    /\ History("c1")[Len(History("c1"))].role = "assistant"
    /\ sessions[conversations["c1"]].lastActivity = 24

\* the hours since the session under c was last active
IdleHours(c) == now - sessions[conversations[c]].lastActivity

\* C17: a run of the sweep takes out of the map exactly the sessions idle
\* for more than 24 hours, and leaves every other session, its lastActivity
\* and its history as they were (a session idle for exactly 24 hours is left,
\* a session idle for 25 hours is taken out).
C17_SweepExact ==
    [][Sweep =>
          \A c \in ConvIds :
              conversations[c] # 0 =>
                  IF IdleHours(c) > 24
                  THEN conversations'[c] = 0
                  ELSE /\ conversations'[c] = conversations[c]
                       /\ sessions'[conversations[c]] = sessions[conversations[c]]
                       /\ History(c)' = History(c)]_vars

\* C17 witness: at hour 25 the session of the first request, made at hour 0,
\* is out of the map, and the session of the second request, on the other
\* id and active at hour 25, is in it.
C17_Witness ==
    /\ now = 25
    /\ req[1].pc = "done"
    /\ req[1].conv = "c1"
    /\ conversations["c1"] = 0
    /\ conversations["c2"] # 0
    /\ IdleHours("c2") = 0
    /\ Len(History("c2")) = 3

\* the stream of request r has just thrown
Broken(r) == req[r].pc = "streaming" /\ req'[r].pc = "failed"

\* C19 as stated: when the stream of a request fails after it has yielded
\* fragments, what was accumulated is appended to the history of the
\* session as the assistant turn of the request.
C19_Original ==
    [][\A r \in Reqs, c \in ConvIds :
          (Broken(r) /\ req[r].fullResponse > 0 /\ req[r].conv = c /\ ~req[r].gone) =>
              /\ conversations'[c] # 0
              /\ History(c)'[Len(History(c)')] =
                     [id |-> AssistantId(r), role |-> "assistant",
                      len |-> req[r].fullResponse]]_vars

\* the list that request r has handed to the provider (chat.ts:82, 119)
Sent(r) == arrays[req[r].msgs]

\* C20: a request that has passed validation has called the provider once,
\* whether it is waiting, has been answered or has failed, and a request
\* that has not passed has not called it; the list handed over is
\* trimConversation of the history with the new user turn, starting with
\* the system turn of the session and ending with the user turn of the
\* request.
C20_ProviderCall ==
    [][/\ \A r \in Reqs :
            req'[r].calls = IF req'[r].pc \in {"new", "rejected"} THEN 0 ELSE 1
       /\ \A r \in Reqs, c \in ConvIds :
            (LetIn(r) /\ req'[r].conv = c) =>
                /\ \E len \in {content.body : content \in ChatContents} :
                      Sent(r)' = trimConversation(
                          Append(IF conversations[c] = 0
                                 THEN <<[id |-> SystemId(r), role |-> "system", len |-> 133]>>
                                 ELSE History(c),
                                 [id |-> UserId(r), role |-> "user", len |-> len]))
                /\ Sent(r)'[1].role = "system"
                /\ conversations[c] # 0 => Sent(r)'[1] = History(c)[1]
                /\ Sent(r)'[Len(Sent(r)')].id = UserId(r)
                /\ Sent(r)'[Len(Sent(r)')].role = "user"]_vars

\* C20 witness: the first request has failed after its one call; the second,
\* on the same conversation, has made its one call with a list that the
\* trimmer cut down to the system turn and the new user turn.
C20_Witness ==
    /\ req[1].pc = "failed"
    /\ req[1].calls = 1
    /\ req[2].pc \in {"awaiting", "streaming"}
    /\ req[2].calls = 1
    /\ req[2].conv = "c1"
    /\ Len(Sent(2)) = 2
    /\ Sent(2)[1].id = SystemId(1)
    /\ Sent(2)[2].id = UserId(2)

\* C25 as stated: a user turn that is appended while no other request on
\* the conversation is under way leaves a history without two user turns
\* next to each other, also when the request before it has failed.
C25_Original ==
    [][\A r \in Reqs, c \in ConvIds :
          (LetIn(r) /\ req'[r].conv = c /\ req'[r].during = {}) =>
              \A i \in 1..(Len(History(c)') - 1) :
                  ~(History(c)'[i].role = "user" /\ History(c)'[i + 1].role = "user")]_vars

\* C21: reading or deleting an identifier that has no session answers
\* not-found and changes nothing in the store; deleting an identifier that
\* has a session answers success and removes the session, and reading the
\* identifier then answers not-found; a read changes no session
C21_NotFound ==
    [][\A c \in ConvIds :
          /\ conversations[c] = 0 =>
                 /\ GetReply(c).status = 404
                 /\ DeleteReply(c) = 404
                 /\ UNCHANGED <<conversations, sessions, arrays>> \/ ~Delete(c)
          /\ conversations[c] # 0 =>
                 /\ GetReply(c).status = 200
                 /\ DeleteReply(c) = 200
                 /\ Delete(c) => /\ conversations'[c] = 0
                                 /\ GetReply(c)'.status = 404
                                 /\ DeleteReply(c)' = 404
          /\ UNCHANGED <<conversations, sessions, arrays>> \/ ~Get(c)]_vars

\* a session with an answered message has been deleted (no time has passed,
\* so the sweep has removed nothing)
C21_Witness ==
    \E c \in ConvIds, r \in Reqs :
        /\ conversations[c] = 0
        /\ req[r].conv = c
        /\ req[r].pc = "done"
        /\ ~req[r].gone
        /\ now = 0

\* the step is a step of request r: it has moved on, or taken a fragment
Stepped(r) == req'[r].pc # req[r].pc \/ req'[r].chunks # req[r].chunks

\* the step leaves every identifier but c as it was: its entry of the map,
\* and the history and lastActivity of its session
OthersKept(c) ==
    \A d \in ConvIds \ {c} :
        /\ conversations'[d] = conversations[d]
        /\ conversations[d] # 0 =>
               /\ History(d)' = History(d)
               /\ sessions'[conversations'[d]].lastActivity =
                      sessions[conversations[d]].lastActivity

\* C24: a step of a chat request on an identifier (let in, turned down, a
\* fragment, the answer stored, the failure), a read of the identifier and a
\* delete of it leave the sessions of all other identifiers as they were
C24_OthersUntouched ==
    [][\A c \in ConvIds :
          /\ \A r \in Reqs :
                 /\ (LetIn(r) /\ req'[r].conv = c) => OthersKept(c)
                 /\ TurnedDown(r) => OthersKept(c)
                 /\ (InFlight(r) /\ Stepped(r) /\ req[r].conv = c) => OthersKept(c)
          /\ OthersKept(c) \/ ~Get(c)
          /\ OthersKept(c) \/ ~Delete(c)]_vars

\* requests on two identifiers under way together, one has its answer
\* stored while the other still waits
C24_Witness ==
    \E r, q \in Reqs :
        /\ req[r].pc = "done"
        /\ InFlight(q)
        /\ req[r].conv # req[q].conv
        /\ q \in 1..r
        /\ conversations[req[r].conv] # 0
        /\ conversations[req[q].conv] # 0
        /\ Len(History(req[r].conv)) = 3

----------------------------------------------------------------------------
(* Properties of the stream, under SpecStream *)

Terminal(e) == e.done \/ e.error # <<>>

\* the texts of the chunks of events, put together
RECURSIVE Joined(_)
Joined(events) ==
    IF events = <<>> THEN <<>> ELSE Head(events).chunk \o Joined(Tail(events))

WrittenInOrder ==
    LET w == sse.written
        n == Len(w)
        ended == n > 0 /\ Terminal(w[n])
        chunks == IF ended THEN SubSeq(w, 1, n - 1) ELSE w
        stored == ended /\ w[n].done
    IN  /\ Len(chunks) = Len(sse.yielded)
        /\ \A i \in 1..Len(chunks) :
               /\ ~Terminal(chunks[i])
               /\ chunks[i].chunk = <<sse.yielded[i]>>
        /\ ended <=> sse.pc = "closed"
        /\ stored =>
               /\ w[n].error = <<>>
               /\ w[n].fullMessage = Joined(chunks)
               /\ Len(sse.messages) = 2
               /\ sse.messages[2].role = "assistant"
               /\ sse.messages[2].content = w[n].fullMessage
        /\ ~stored => Len(sse.messages) = 1

\* C26: what the stream branch has written is one chunk event with
\* done = false for each fragment the provider has yielded, in their order,
\* and once the branch has ended one last event after them: the done event,
\* whose fullMessage is the chunks written put together, or the error event;
\* nothing is written after it.  The assistant turn is in the history
\* exactly when the done event is written, with the fullMessage as content.
C26_EventOrder ==
    /\ []WrittenInOrder
    /\ [][sse.pc = "closed" => sse' = sse]_vars

\* two different fragments, then the done event
C26_Witness ==
    /\ sse.pc = "closed"
    /\ Len(sse.written) = 3
    /\ sse.written[3].done
    /\ sse.yielded[1] # sse.yielded[2]

\* the events of which the connection has given the whole line to the call
RECURSIVE WholeEvents(_, _)
WholeEvents(events, read) ==
    IF events = <<>> THEN <<>>
    ELSE LET pieces == Len(Framed(Head(events)))
         IN  IF read >= pieces - 1
             THEN <<Head(events)>> \o WholeEvents(Tail(events), read - pieces)
             ELSE <<>>

\* the callbacks that a sequence of events asks for
RECURSIVE Due(_)
Due(events) ==
    IF events = <<>> THEN <<>>
    ELSE LET e == Head(events)
         IN  IF e.error # <<>> THEN <<[fn |-> "onError", arg |-> e.error]>>
             ELSE IF e.done THEN <<>>
             ELSE <<[fn |-> "onChunk", arg |-> e.chunk]>> \o Due(Tail(events))

DeliveredInOrder ==
    LET whole == WholeEvents(sse.written, call.read)
        due == Due(whole)
        over == \E i \in 1..Len(whole) : Terminal(whole[i])
    IN  /\ \/ call.callbacks = due
           \/ /\ call.pc = "returned"
              /\ ~over
              /\ Len(call.callbacks) = Len(due) + 1
              /\ SubSeq(call.callbacks, 1, Len(due)) = due
              /\ call.callbacks[Len(due) + 1].fn = "onError"
        /\ over => call.pc = "returned"
        /\ Cardinality({i \in 1..Len(call.callbacks) : call.callbacks[i].fn = "onError"}) <= 1

\* C27: the callbacks a call has invoked are those of the events whose line
\* the connection has given it whole, in the order of the events, whatever
\* the reads were that brought them (onChunk for each chunk, onError for the
\* error event), with at most one onError more when fetch or a read fails;
\* once the error event or the done event is processed the call has
\* returned, a call that has returned invokes nothing more, and onError is
\* invoked at most once.
C27_Delivery ==
    /\ []DeliveredInOrder
    /\ [][call.pc = "returned" => call' = call]_vars

\* a chunk has been delivered and the last read has ended inside the line
\* of the next event
C27_Witness ==
    /\ call.pc = "reading"
    /\ Len(call.callbacks) = 1
    /\ call.buffer # <<>>
    /\ startsWithData(call.buffer)
    /\ Len(sse.written) >= 2
    /\ sse.written[2].chunk # sse.written[1].chunk

----------------------------------------------------------------------------
(* Properties of the input area, under SpecTyped *)

\* C29 as stated: every message that the frontend's validator accepts and
\* the input area sends is accepted by the server's validator in the form
\* it is sent: the server answers neither empty, too long nor unsafe.
C29_Original == (tpc = "handled" /\ output.sent) => output.reply = "valid"

----------------------------------------------------------------------------
(* Properties of the rate limiter of the input area, under SpecArea *)

Times(seq) == {seq[i] : i \in 1..Len(seq)}

Oldest(seq) == CHOOSE t \in Times(seq) : \A u \in Times(seq) : t <= u

\* no stretch of time shorter than the window has more than maxRequests
\* grants, and only a granted and valid message is sent
GrantsSpread ==
    /\ \A i \in 1..Len(area.granted) :
           Cardinality({j \in 1..i : area.granted[i] - area.granted[j] < windowMs})
               <= maxRequests
    /\ area.last.sent => area.last.granted /\ area.last.valid

\* a step without a grant records no timestamp, and a call that finds the
\* oldest timestamp a window or more back is granted
GrantStep ==
    /\ area'.granted = area.granted =>
           /\ Times(area'.timestamps) \subseteq Times(area.timestamps)
           /\ Len(area'.timestamps) <= Len(area.timestamps)
    /\ ( /\ area.timestamps # <<>>
         /\ area.clock - Oldest(area.timestamps) >= windowMs
         /\ area'.timestamps # area.timestamps )
       => area'.granted = Append(area.granted, area.clock)

\* C30: canMakeRequest returns true at most maxRequests times in any stretch
\* of time shorter than windowMs; a call that returns false records no
\* timestamp; a call made windowMs or more after the oldest recorded grant
\* returns true; and a handleSend that the limiter or the validation
\* refuses does not call onSendMessage.
C30_RateLimit ==
    /\ []GrantsSpread
    /\ [][GrantStep]_vars

\* ten grants at the start, and a send refused one millisecond before the
\* window is over
C30_Witness ==
    /\ Len(area.granted) = maxRequests
    /\ area.clock = windowMs - 1
    /\ Len(area.timestamps) = maxRequests
    /\ ~area.last.granted

----------------------------------------------------------------------------
(* Properties of validateMessage, under SpecValidate *)

IsString(content) == content.type = "string"
TrimmedLength(content) == content.body
FullLength(content) == content.lead + content.body + content.trail
Unsafe(content) == content.pat \in {"javascript:", "<script", "on=", "eval("}

\* the reason behind an error text ("valid" when there is none)
Reason(result) ==
    CASE result \in {"Message content must be a non-empty string", "Message cannot be empty"}
            -> "empty"
      [] result = "Message is too long (maximum 10,000 characters)" -> "too long"
      [] result = "Message contains potentially unsafe content" -> "unsafe content"
      [] result = "valid" -> "valid"
      [] OTHER -> "unknown"

\* C11 as stated: a message is rejected as too long exactly when the length
\* of its whitespace-trimmed content is over 10,000, however much whitespace
\* is around it.
C11_Original ==
    (tpc = "validated" /\ IsString(input) /\ TrimmedLength(input) > 0) =>
        (Reason(output) = "too long" <=> TrimmedLength(input) > 10000)

\* C12: the rules are applied in the order empty, too long, unsafe content:
\* a value that is no string, or blank, gives the empty reason; text longer
\* than 10,000 after trimming gives the too-long reason, with or without an
\* unsafe pattern; text of at most 10,000 characters with its whitespace
\* that matches one of the four patterns gives the unsafe-content reason; any
\* other text of at most 10,000 characters is valid; there is no other result.
C12_RuleOrder ==
    tpc = "validated" =>
        /\ Reason(output) \in {"empty", "too long", "unsafe content", "valid"}
        /\ (~IsString(input) \/ TrimmedLength(input) = 0) => Reason(output) = "empty"
        /\ (IsString(input) /\ TrimmedLength(input) > 10000) => Reason(output) = "too long"
        /\ (IsString(input) /\ TrimmedLength(input) > 0 /\ FullLength(input) <= 10000) =>
              Reason(output) = IF Unsafe(input) THEN "unsafe content" ELSE "valid"

\* C12 witness: a text matching a pattern and over the length after trimming
\* was reported as too long, not as unsafe.
C12_Witness ==
    /\ tpc = "validated"
    /\ Unsafe(input)
    /\ TrimmedLength(input) > 10000
    /\ Reason(output) = "too long"

----------------------------------------------------------------------------
(* Properties of the chat window, under SpecClient *)

\* C18 as stated: once a send whose stream brought the error event of a
\* failed provider has settled, the assistant message of that send is in the
\* list with the failure text and the status 'error', the one status that
\* offers the retry, for as long as the list is not cleared and nothing else
\* is sent.
C18_Original ==
    (/\ client.pc = "idle"
     /\ client.ended = "error"
     /\ client.target \in DOMAIN client.messages) =>
        client.messages[client.target] =
            [role |-> "assistant",
             content |-> <<"Sorry, I encountered an error. Please try again.">>,
             status |-> "error"]

----------------------------------------------------------------------------
(* Properties of the token estimate, under SpecEstimate *)

RECURSIVE SumSeq(_)
SumSeq(numbers) ==
    IF numbers = <<>> THEN 0 ELSE numbers[Len(numbers)] + SumSeq(SubSeq(numbers, 1, Len(numbers) - 1))

\* C22: the estimate of a turn is the least integer not below a quarter of
\* the length of its content, plus 10: an integer of at least 10 that does
\* not go down when the content grows; the total of a sequence is the sum
\* of the estimates of its turns, 0 for the empty sequence.
C22_Estimate ==
    tpc = "estimated" =>
        /\ \A i \in DOMAIN input :
              /\ output.each[i] \in Nat
              /\ output.each[i] >= 10
              /\ 4 * (output.each[i] - 10) >= input[i].len
              /\ 4 * (output.each[i] - 11) < input[i].len
        /\ \A i, j \in DOMAIN input :
              input[i].len <= input[j].len => output.each[i] <= output.each[j]
        /\ output.total = SumSeq(output.each)
        /\ input = <<>> => output.total = 0

\* C22 witness: three turns of 1, 5 and 133 characters were estimated at 11,
\* 12 and 44 tokens, 67 in total.
C22_Witness ==
    /\ tpc = "estimated"
    /\ Len(input) = 3
    /\ input[1].len = 1 /\ input[2].len = 5 /\ input[3].len = 133
    /\ output.each = <<11, 12, 44>>
    /\ output.total = 67

----------------------------------------------------------------------------
(* Properties of needsSummarization, under SpecSummarize *)

\* C23: the answer is true exactly when there are more than 24 turns that
\* are not system turns, whatever the system turns and the lengths.
C23_Threshold ==
    tpc = "asked" => (output <=> Len(OtherTurns(input)) > 24)

\* C23 witness: 24 turns that are not system turns and two system turns, 8000
\* characters among the lengths: the answer is false.
C23_Witness ==
    /\ tpc = "asked"
    /\ Len(OtherTurns(input)) = 24
    /\ Len(SystemTurns(input)) = 2
    /\ \E i \in DOMAIN input : input[i].len = 8000
    /\ output = FALSE

====
